---- MODULE Spec2Model ----
(***************************************************************************)
(* The discrete-event toll plaza simulation of                             *)
(* src/executing_fastapi_code/simulation.py: TollPlaza.__init__,           *)
(* run_simulation with its three event handlers, and print_statistics.     *)
(*                                                                         *)
(* Times are Python floats.  They are modelled as integers (seconds) with  *)
(* a scaled-down binary mantissa of MantBits bits: every float addition    *)
(* and subtraction of the code rounds its exact result to the nearest      *)
(* representable value, ties to even, as IEEE-754 does with 53 bits.       *)
(***************************************************************************)
EXTENDS Integers, Sequences, FiniteSets, TLC

(* ------------------------------ bounds --------------------------------- *)
MaxBooths == 2
MaxVehicles == 4
MantBits == 7

(* The draws of random.expovariate, as magnitudes in seconds. *)
GapChoices == {0, 1, 99, 125}
(* The duration_seconds arguments of run_simulation. *)
DurationChoices == {3, 102, 130}
(* The axle counts drawn for a truck, a subset of randint(3, 6). *)
TruckAxleChoices == {3}

(* --------------------------- program constants ------------------------- *)
SecondsPerHour == 3600
SecondsPerAxle == 2
CarAxles == 2
None == 0

(* The constructor arguments <<num_booths, vehicles_per_hour>>. *)
ConfigChoices ==
    {<<n, SecondsPerHour>> : n \in 0..MaxBooths}
        \cup {<<1, 0>>, <<1, 0 - SecondsPerHour>>}

VehicleTypes == {"CAR", "BUS", "TRUCK"}

AxleChoices(vehicle_type) ==
    IF vehicle_type = "CAR" THEN {CarAxles}
    ELSE IF vehicle_type = "BUS" THEN {2, 3}
    ELSE TruckAxleChoices

(* ------------------------- float arithmetic ---------------------------- *)
RECURSIVE Quantum(_, _)
(* The spacing of representable values around x >= 0: the least power of   *)
(* two q with x < 2^MantBits * q.                                          *)
Quantum(x, q) == IF x < (2 ^ MantBits) * q THEN q ELSE Quantum(x, 2 * q)

(* x >= 0 rounded to the nearest multiple of its quantum, ties to the even *)
(* mantissa.                                                               *)
RoundNearestEven(x) ==
    LET q == Quantum(x, 1)
        lo == (x \div q) * q
        r == x - lo
    IN  IF 2 * r < q THEN lo
        ELSE IF 2 * r > q THEN lo + q
        ELSE IF (lo \div q) % 2 = 0 THEN lo ELSE lo + q

Float(x) == IF x < 0 THEN 0 - RoundNearestEven(0 - x) ELSE RoundNearestEven(x)

FloatAdd(a, b) == Float(a + b)

FloatSub(a, b) == Float(a - b)

(* ----------------------------- events ---------------------------------- *)
(* Python compares the event tuples lexicographically: the time, then the  *)
(* kind as a string, then the booth id.                                    *)
(* A variant that orders the events by time alone. *)
TypeRankBlind(event_type) == 0

TypeRank(event_type) ==
    IF event_type = "FINISH_PROCESSING" THEN 0
    ELSE IF event_type = "START_PROCESSING" THEN 1
    ELSE 2

Event(event_time, event_type, event_data) ==
    [time |-> event_time, type |-> event_type, data |-> event_data]

TupleLess(a, b) ==
    \/ a.time < b.time
    \/ /\ a.time = b.time
       /\ TypeRank(a.type) < TypeRank(b.type)
    \/ /\ a.time = b.time
       /\ a.type = b.type
       /\ Len(a.data) > 0
       /\ Len(b.data) > 0
       /\ a.data[1] < b.data[1]

RECURSIVE HeapPush(_, _)
(* heapq.heappush: the queue is kept as the sequence heappop would return. *)
HeapPush(heap, item) ==
    IF heap = <<>> THEN <<item>>
    ELSE IF TupleLess(item, Head(heap)) THEN <<item>> \o heap
    ELSE <<Head(heap)>> \o HeapPush(Tail(heap), item)

HeapTop(heap) == Head(heap)

HeapRest(heap) == Tail(heap)

(* ----------------------------- state ----------------------------------- *)
VARIABLES
    pc,                   \* "new", "constructed", "loop", "done" or "failed"
    num_booths,           \* constructor argument
    vehicles_per_hour,    \* constructor argument
    duration_seconds,     \* run_simulation argument
    booths,               \* TollPlaza.booths, indexed by booth id from 0
    simulation_time,      \* TollPlaza.simulation_time
    event_queue,          \* TollPlaza.event_queue
    vehicles_processed,   \* TollPlaza.vehicles_processed
    total_wait_time,      \* TollPlaza.total_wait_time
    next_vehicle_id,      \* TollPlaza.next_vehicle_id
    avg_arrival_interval, \* TollPlaza.avg_arrival_interval
    vehicles,             \* the Vehicle objects created so far, by id
    error,                \* the exception that ended the program, or "none"
    report,               \* what print_statistics printed
    handled,              \* history: the events dequeued so far, in order
    service_start,        \* history: vehicle id -> time its service started
    finished,             \* history: the vehicle ids that finished, in order
    routed_to             \* history: vehicle id -> booth it was routed to

sim_vars ==
    <<pc, num_booths, vehicles_per_hour, duration_seconds, booths,
      simulation_time, event_queue, vehicles_processed, total_wait_time,
      next_vehicle_id, avg_arrival_interval, vehicles, error, report,
      handled, service_start, finished, routed_to>>

(* The state of data_warehouse/etl.py. *)
VARIABLES
    etl_pc,                 \* "idle", "start", "read", "load", "closed",
                            \* "returned" or "aborted"
    events_file,            \* the lines of simulation_events.jsonl
    line_no,                \* lines of the file consumed by the read loop
    event_bound,            \* whether the local variable event is assigned
    processed_transactions, \* the list run_etl collects
    dimensions,             \* rows of the four dimension tables
    fact_transactions,      \* rows of the fact table
    trans_no,               \* transactions consumed by the load loop
    etl_printed,            \* the per-record messages printed
    etl_error               \* the exception that left run_etl, or "none"

etl_vars ==
    <<etl_pc, events_file, line_no, event_bound, processed_transactions,
      dimensions, fact_transactions, trans_no, etl_printed, etl_error>>

vars == <<sim_vars, etl_vars>>

NoReport ==
    [result |-> "unset", vehicles_processed |-> 0, avg_wait_time |-> <<>>,
     remaining |-> 0]

(* ----------------------------- TollBooth ------------------------------- *)
TollBooth(booth_id) ==
    [id |-> booth_id, vehicle_queue |-> <<>>, is_busy |-> FALSE,
     current_vehicle |-> None]

(* A slip: the queue is assigned instead of appended to. *)
AddVehicleReplacing(booth, vehicle) ==
    [booth EXCEPT !.vehicle_queue = <<vehicle>>]

AddVehicle(booth, vehicle) ==
    [booth EXCEPT !.vehicle_queue = Append(@, vehicle)]

GetQueueLength(booth) == Len(booth.vehicle_queue)

(* A slip: the busy flag is not raised. *)
BeginServiceNotBusy(booth) ==
    [booth EXCEPT !.current_vehicle = Head(booth.vehicle_queue),
                  !.vehicle_queue = Tail(@)]

(* A slip: pop() for popleft(), which serves the newest vehicle first. *)
BeginServiceLast(booth) ==
    [booth EXCEPT !.is_busy = TRUE,
                  !.current_vehicle =
                      booth.vehicle_queue[Len(booth.vehicle_queue)],
                  !.vehicle_queue =
                      SubSeq(@, 1, Len(booth.vehicle_queue) - 1)]

(* START_PROCESSING: the head of the queue is taken into service. *)
BeginService(booth) ==
    [booth EXCEPT !.is_busy = TRUE,
                  !.current_vehicle = Head(booth.vehicle_queue),
                  !.vehicle_queue = Tail(@)]

(* FINISH_PROCESSING: the booth is released. *)
EndService(booth) ==
    [booth EXCEPT !.is_busy = FALSE, !.current_vehicle = None]

(* A slip: the start of service is scheduled whether or not the booth is   *)
(* serving.                                                                *)
BoothIdleAlways(booth) == TRUE

(* The test of the arrival handler before it schedules START_PROCESSING. *)
BoothIdle(booth) == ~booth.is_busy

(* ------------------------------ Vehicle -------------------------------- *)
(* vehicle_type and speed are drawn but never read again; only the axle    *)
(* count the type leads to is kept.                                        *)
Vehicle(vehicle_id, arrival_time, axle_count) ==
    [id |-> vehicle_id, arrival_time |-> arrival_time, departure_time |-> 0,
     axles |-> axle_count]

(* ----------------------------- TollPlaza ------------------------------- *)
(* random.expovariate(1.0 / avg_arrival_interval) is -log(1 - u) / lambd:  *)
(* a magnitude with the sign of the rate.                                  *)
Expovariate(magnitude) ==
    IF avg_arrival_interval < 0 THEN 0 - magnitude ELSE magnitude

(* A slip: the gap is drawn but not added to the clock. *)
GetNextArrivalTimeNow(now, magnitude) == now

GetNextArrivalTime(now, magnitude) == FloatAdd(now, Expovariate(magnitude))

(* A slip: the arrival time is drawn but the event is not pushed. *)
ScheduleNothing(heap, now, magnitude) == heap

ScheduleVehicleArrival(heap, now, magnitude) ==
    HeapPush(heap, Event(GetNextArrivalTime(now, magnitude), "VEHICLE_ARRIVAL", <<>>))

RECURSIVE MinScanLast(_, _, _)
(* A slip: <= for <, which keeps the last of the minimal booths. *)
MinScanLast(bs, i, best) ==
    IF i >= Cardinality(DOMAIN bs) THEN best
    ELSE MinScanLast(bs, i + 1,
                     IF Len(bs[i].vehicle_queue) <= Len(bs[best].vehicle_queue)
                     THEN i ELSE best)

RECURSIVE MinScan(_, _, _)
(* min(iterable, key=...): a left-to-right scan that replaces the best so  *)
(* far only by a strictly smaller key.                                     *)
MinScan(bs, i, best) ==
    IF i >= Cardinality(DOMAIN bs) THEN best
    ELSE MinScan(bs, i + 1,
                 IF GetQueueLength(bs[i]) < GetQueueLength(bs[best])
                 THEN i ELSE best)

GetShortestQueueBooth(bs) == MinScan(bs, 1, 0)

(* A slip: every vehicle is charged the service time of a car. *)
ProcessingTimeFlat(axle_count) == CarAxles * SecondsPerAxle

ProcessingTime(axle_count) == axle_count * SecondsPerAxle

(* A slip: the operands of the subtraction are swapped. *)
WaitTimeSwapped(vehicle) ==
    FloatSub(vehicle.arrival_time, vehicle.departure_time)

WaitTime(vehicle) == FloatSub(vehicle.departure_time, vehicle.arrival_time)

(* A slip: the time bound is left out of the guard. *)
LoopGuardNoBound == event_queue # <<>>

(* A variant that tests the time of the next event, not the clock. *)
LoopGuardPeeking ==
    /\ event_queue # <<>>
    /\ HeapTop(event_queue).time < duration_seconds

LoopGuard == event_queue # <<>> /\ simulation_time < duration_seconds

RECURSIVE RemainingWithService(_, _)
(* A slip: the vehicle in service is counted as waiting. *)
RemainingWithService(bs, i) ==
    IF i >= Cardinality(DOMAIN bs) THEN 0
    ELSE GetQueueLength(bs[i]) + (IF bs[i].is_busy THEN 1 ELSE 0)
         + RemainingWithService(bs, i + 1)

RECURSIVE RemainingInQueues(_, _)
RemainingInQueues(bs, i) ==
    IF i >= Cardinality(DOMAIN bs) THEN 0
    ELSE GetQueueLength(bs[i]) + RemainingInQueues(bs, i + 1)

(* A slip: >= for >. *)
StatsBranchNonNegative(processed) == processed >= 0

StatsBranch(processed) == processed > 0

PrintStatistics(processed, total, bs) ==
    IF StatsBranch(processed)
    THEN IF processed = 0
         THEN [NoReport EXCEPT !.result = "ZeroDivisionError"]
         ELSE [result |-> "average", vehicles_processed |-> processed,
               avg_wait_time |-> <<total, processed>>,
               remaining |-> RemainingInQueues(bs, 0)]
    ELSE [result |-> "none", vehicles_processed |-> processed,
          avg_wait_time |-> <<>>, remaining |-> RemainingInQueues(bs, 0)]

(* ------------------------------ actions -------------------------------- *)
SimNew(configs) ==
    /\ pc = "new"
    /\ \E config \in configs :
          /\ num_booths = config[1]
          /\ vehicles_per_hour = config[2]
    /\ duration_seconds = 0
    /\ booths = <<>>
    /\ simulation_time = 0
    /\ event_queue = <<>>
    /\ vehicles_processed = 0
    /\ total_wait_time = 0
    /\ next_vehicle_id = 0
    /\ avg_arrival_interval = 0
    /\ vehicles = <<>>
    /\ error = "none"
    /\ report = NoReport
    /\ handled = <<>>
    /\ service_start = <<>>
    /\ finished = <<>>
    /\ routed_to = <<>>

(* run_etl has not been called. *)
EtlNotStarted ==
    /\ etl_pc = "idle"
    /\ events_file = <<>>
    /\ line_no = 0
    /\ event_bound = FALSE
    /\ processed_transactions = <<>>
    /\ dimensions = {}
    /\ fact_transactions = <<>>
    /\ trans_no = 0
    /\ etl_printed = <<>>
    /\ etl_error = "none"

InitWith(configs) == SimNew(configs) /\ EtlNotStarted

Init == InitWith(ConfigChoices)

(* TollPlaza.__init__ *)
Construct ==
    /\ pc = "new"
    /\ booths' = [i \in 0..(num_booths - 1) |-> TollBooth(i)]
    /\ simulation_time' = 0
    /\ event_queue' = <<>>
    /\ vehicles_processed' = 0
    /\ total_wait_time' = 0
    /\ next_vehicle_id' = 0
    /\ IF vehicles_per_hour = 0
       THEN /\ pc' = "failed"
            /\ error' = "ZeroDivisionError"
            /\ UNCHANGED avg_arrival_interval
       ELSE /\ pc' = "constructed"
            /\ avg_arrival_interval' = SecondsPerHour \div vehicles_per_hour
            /\ UNCHANGED error
    /\ UNCHANGED <<num_booths, vehicles_per_hour, duration_seconds, vehicles,
                   report, handled, service_start, finished, routed_to>>
    /\ UNCHANGED etl_vars

(* run_simulation up to its loop: the first arrival is scheduled. The     *)
(* expovariate draw is taken from draws.                                   *)
RunSimulationBegin(draws) ==
    /\ pc = "constructed"
    /\ \E duration \in DurationChoices :
          /\ duration_seconds' = duration
          /\ \E magnitude \in draws :
                event_queue' =
                   ScheduleVehicleArrival(event_queue, simulation_time,
                                          magnitude)
    /\ pc' = "loop"
    /\ UNCHANGED <<num_booths, vehicles_per_hour, booths, simulation_time,
                   vehicles_processed, total_wait_time, next_vehicle_id,
                   avg_arrival_interval, vehicles, error, report, handled,
                   service_start, finished, routed_to>>
    /\ UNCHANGED etl_vars

RunStart == RunSimulationBegin(GapChoices)

(* One loop iteration that dequeues a VEHICLE_ARRIVAL event. The           *)
(* expovariate draw for the next arrival is taken from draws.              *)
VehicleArrival(draws) ==
    /\ pc = "loop"
    /\ LoopGuard
    /\ HeapTop(event_queue).type = "VEHICLE_ARRIVAL"
    /\ next_vehicle_id < MaxVehicles
    /\ \E vehicle_type \in VehicleTypes :
       \E axle_count \in AxleChoices(vehicle_type) :
       \E magnitude \in draws :
          LET event == HeapTop(event_queue)
              popped == HeapRest(event_queue)
              now == event.time
              vehicle == Vehicle(next_vehicle_id + 1, now, axle_count)
          IN  /\ simulation_time' = now
              /\ handled' = Append(handled, event)
              /\ next_vehicle_id' = vehicle.id
              /\ vehicles' = Append(vehicles, vehicle)
              /\ IF num_booths = 0
                 THEN \* min() of an empty list
                      /\ pc' = "failed"
                      /\ error' = "ValueError"
                      /\ event_queue' = popped
                      /\ UNCHANGED <<booths, routed_to>>
                 ELSE LET b == GetShortestQueueBooth(booths)
                          routed == [booths EXCEPT ![b] = AddVehicle(@, vehicle.id)]
                          started ==
                              IF BoothIdle(routed[b])
                              THEN HeapPush(popped,
                                       Event(now, "START_PROCESSING", <<b>>))
                              ELSE popped
                      IN  /\ booths' = routed
                          /\ routed_to' = routed_to @@ (vehicle.id :> b)
                          /\ event_queue' =
                                ScheduleVehicleArrival(started, now, magnitude)
                          /\ UNCHANGED <<pc, error>>
    /\ UNCHANGED <<num_booths, vehicles_per_hour, duration_seconds,
                   vehicles_processed, total_wait_time, avg_arrival_interval,
                   report, service_start, finished>>
    /\ UNCHANGED etl_vars

HandleArrival == VehicleArrival(GapChoices)

(* One loop iteration that dequeues a START_PROCESSING event. *)
HandleStart ==
    /\ pc = "loop"
    /\ LoopGuard
    /\ HeapTop(event_queue).type = "START_PROCESSING"
    /\ LET event == HeapTop(event_queue)
           popped == HeapRest(event_queue)
           now == event.time
           booth_id == event.data[1]
           booth == booths[booth_id]
       IN  /\ simulation_time' = now
           /\ handled' = Append(handled, event)
           /\ IF booth.vehicle_queue # <<>>
              THEN LET current == Head(booth.vehicle_queue)
                       processing_time == ProcessingTime(vehicles[current].axles)
                       finish_time == FloatAdd(now, processing_time)
                   IN  /\ booths' = [booths EXCEPT ![booth_id] = BeginService(@)]
                       /\ event_queue' =
                             HeapPush(popped,
                                 Event(finish_time, "FINISH_PROCESSING", <<booth_id>>))
                       /\ service_start' = service_start @@ (current :> now)
              ELSE /\ event_queue' = popped
                   /\ UNCHANGED <<booths, service_start>>
    /\ UNCHANGED <<pc, num_booths, vehicles_per_hour, duration_seconds,
                   vehicles_processed, total_wait_time, next_vehicle_id,
                   avg_arrival_interval, vehicles, error, report, finished,
                   routed_to>>
    /\ UNCHANGED etl_vars

(* One loop iteration that dequeues a FINISH_PROCESSING event. *)
HandleFinish ==
    /\ pc = "loop"
    /\ LoopGuard
    /\ HeapTop(event_queue).type = "FINISH_PROCESSING"
    /\ LET event == HeapTop(event_queue)
           popped == HeapRest(event_queue)
           now == event.time
           booth_id == event.data[1]
           booth == booths[booth_id]
           processed_vehicle == booth.current_vehicle
       IN  /\ simulation_time' = now
           /\ handled' = Append(handled, event)
           /\ IF processed_vehicle = None
              THEN \* None has no attribute departure_time
                   /\ pc' = "failed"
                   /\ error' = "AttributeError"
                   /\ event_queue' = popped
                   /\ UNCHANGED <<booths, vehicles, total_wait_time,
                                  vehicles_processed, finished>>
              ELSE LET departed ==
                           [vehicles EXCEPT
                               ![processed_vehicle].departure_time = now]
                       wait_time == WaitTime(departed[processed_vehicle])
                   IN  /\ vehicles' = departed
                       /\ total_wait_time' = FloatAdd(total_wait_time, wait_time)
                       /\ vehicles_processed' = vehicles_processed + 1
                       /\ finished' = Append(finished, processed_vehicle)
                       /\ booths' = [booths EXCEPT ![booth_id] = EndService(@)]
                       /\ event_queue' =
                             IF booth.vehicle_queue # <<>>
                             THEN HeapPush(popped,
                                      Event(now, "START_PROCESSING", <<booth_id>>))
                             ELSE popped
                       /\ UNCHANGED <<pc, error>>
    /\ UNCHANGED <<num_booths, vehicles_per_hour, duration_seconds,
                   next_vehicle_id, avg_arrival_interval, report,
                   service_start, routed_to>>
    /\ UNCHANGED etl_vars

(* The loop guard fails: run_simulation prints the statistics and returns. *)
LoopExit ==
    /\ pc = "loop"
    /\ ~LoopGuard
    /\ LET printed ==
               PrintStatistics(vehicles_processed, total_wait_time, booths)
       IN  /\ report' = printed
           /\ IF printed.result = "ZeroDivisionError"
              THEN pc' = "failed" /\ error' = "ZeroDivisionError"
              ELSE pc' = "done" /\ UNCHANGED error
    /\ UNCHANGED <<num_booths, vehicles_per_hour, duration_seconds, booths,
                   simulation_time, event_queue, vehicles_processed,
                   total_wait_time, next_vehicle_id, avg_arrival_interval,
                   vehicles, handled, service_start, finished, routed_to>>
    /\ UNCHANGED etl_vars

Next ==
    \/ Construct
    \/ RunStart
    \/ HandleArrival
    \/ HandleStart
    \/ HandleFinish
    \/ LoopExit

Spec == Init /\ [][Next]_vars

(* ---------------------- runs that keep advancing ----------------------- *)
(* The runs of a plaza with at least one booth and a positive rate in      *)
(* which every expovariate draw is positive and moves the next arrival     *)
(* past the clock. The draws are also large enough for the clock to reach  *)
(* the duration bound within MaxVehicles arrivals.                         *)
ValidConfigChoices ==
    {config \in ConfigChoices : config[1] >= 1 /\ config[2] > 0}

AdvancingGaps(now, duration) ==
    {magnitude \in GapChoices :
        /\ magnitude > 0
        /\ FloatAdd(now, Expovariate(magnitude)) > now
        /\ magnitude * MaxVehicles >= duration}

InitLive == InitWith(ValidConfigChoices)

RunStartLive ==
    RunSimulationBegin(AdvancingGaps(simulation_time, duration_seconds'))

HandleArrivalLive ==
    VehicleArrival(AdvancingGaps(HeapTop(event_queue).time, duration_seconds))

NextLive ==
    \/ Construct
    \/ RunStartLive
    \/ HandleArrivalLive
    \/ HandleStart
    \/ HandleFinish
    \/ LoopExit

(* run_simulation is one thread that executes its next statement as long   *)
(* as it has one.                                                          *)
SpecLive == InitLive /\ [][NextLive]_vars /\ WF_vars(NextLive)

(* ------------------------ data_warehouse/etl.py ------------------------ *)
(* run_etl reads the events file line by line, fills the dimension tables  *)
(* and collects the transactions, then inserts the collected transactions  *)
(* into fact_transactions. The database is an environment: an insert       *)
(* succeeds or raises, as the database decides.                            *)
MaxLines == 3

TransactionIds == {1, 2}

(* The lines of the events file: bytes that are not UTF-8, JSON nested     *)
(* beyond the decoder's recursion limit, text that is not JSON, a JSON     *)
(* value that is not an object, an object of another event type, and       *)
(* transaction events with or without a timestamp.                         *)
LineChoices ==
    {[kind |-> k, transaction_id |-> 0, timestamp |-> "none"] :
        k \in {"undecodable", "too_deep", "bad_json", "non_object",
               "other_event"}}
    \cup {[kind |-> "transaction_event", transaction_id |-> i, timestamp |-> t] :
            i \in TransactionIds, t \in {"iso", "none"}}

EventsFiles == UNION {[1..n -> LineChoices] : n \in 1..MaxLines}

InsertOutcomes == {"inserted", "ConstraintException", "Exception"}

DimensionTables ==
    <<"dim_date", "dim_vehicle", "dim_toll_plaza", "dim_payment_method">>

(* The rows the four INSERT OR IGNORE statements of one event insert, in   *)
(* the order of the statements; the keys are derived from the event.       *)
DimensionRows(line) ==
    [k \in DOMAIN DimensionTables |->
        <<DimensionTables[k], line.transaction_id>>]

TransactionData(line, n) ==
    [transaction_key |-> line.transaction_id, line |-> n]

EtlMessage(n, text) == [line |-> n, message |-> text]

(* -------------------------- run_etl: actions --------------------------- *)
(* run_etl is called with some events file on disk. *)
InitEtl ==
    /\ SimNew({<<1, SecondsPerHour>>})
    /\ etl_pc = "start"
    /\ events_file \in EventsFiles
    /\ line_no = 0
    /\ event_bound = FALSE
    /\ processed_transactions = <<>>
    /\ dimensions = {}
    /\ fact_transactions = <<>>
    /\ trans_no = 0
    /\ etl_printed = <<>>
    /\ etl_error = "none"

(* The connection is opened and the events file looked up. *)
EtlOpen ==
    /\ etl_pc = "start"
    /\ \E exists \in BOOLEAN :
          etl_pc' = IF exists THEN "read" ELSE "returned"
    /\ UNCHANGED <<events_file, line_no, event_bound, processed_transactions,
                   dimensions, fact_transactions, trans_no, etl_printed,
                   etl_error>>
    /\ UNCHANGED sim_vars

(* The generic handler of the read loop: it prints the local event. *)
ReportEvent(n) ==
    IF event_bound'
    THEN /\ etl_printed' = Append(etl_printed, EtlMessage(n, "etl_error"))
         /\ line_no' = n
         /\ UNCHANGED <<etl_pc, etl_error>>
    ELSE /\ etl_pc' = "aborted"
         /\ etl_error' = "UnboundLocalError"
         /\ UNCHANGED <<etl_printed, line_no>>

(* One iteration of the read loop. *)
EtlLine ==
    /\ etl_pc = "read"
    /\ line_no < Len(events_file)
    /\ LET n == line_no + 1
           line == events_file[n]
       IN  CASE line.kind = "undecodable" ->
                   \* the file iterator raises, outside the try
                   /\ etl_pc' = "aborted"
                   /\ etl_error' = "UnicodeDecodeError"
                   /\ UNCHANGED <<line_no, event_bound, processed_transactions,
                                  dimensions, etl_printed>>
             [] line.kind = "too_deep" ->
                   \* json.loads raises RecursionError
                   /\ UNCHANGED <<event_bound, processed_transactions,
                                  dimensions>>
                   /\ ReportEvent(n)
             [] line.kind = "bad_json" ->
                   /\ etl_printed' =
                         Append(etl_printed, EtlMessage(n, "json_error"))
                   /\ line_no' = n
                   /\ UNCHANGED <<etl_pc, etl_error, event_bound,
                                  processed_transactions, dimensions>>
             [] line.kind = "non_object" ->
                   \* event.get raises AttributeError
                   /\ event_bound' = TRUE
                   /\ UNCHANGED <<processed_transactions, dimensions>>
                   /\ ReportEvent(n)
             [] line.kind = "other_event" ->
                   /\ event_bound' = TRUE
                   /\ line_no' = n
                   /\ UNCHANGED <<etl_pc, etl_error, processed_transactions,
                                  dimensions, etl_printed>>
             [] line.kind = "transaction_event" ->
                   /\ event_bound' = TRUE
                   /\ IF line.timestamp = "none"
                      THEN \* datetime.fromisoformat(None) raises TypeError
                           /\ UNCHANGED <<processed_transactions, dimensions>>
                           /\ ReportEvent(n)
                      ELSE \E failing \in 0..Len(DimensionTables) :
                              LET rows == DimensionRows(line)
                                  done == IF failing = 0
                                          THEN DOMAIN rows
                                          ELSE 1..(failing - 1)
                              IN  /\ dimensions' =
                                        dimensions \cup {rows[k] : k \in done}
                                  /\ IF failing = 0
                                     THEN /\ processed_transactions' =
                                               Append(processed_transactions,
                                                      TransactionData(line, n))
                                          /\ line_no' = n
                                          /\ UNCHANGED <<etl_pc, etl_error,
                                                         etl_printed>>
                                     ELSE /\ UNCHANGED processed_transactions
                                          /\ ReportEvent(n)
    /\ UNCHANGED <<events_file, fact_transactions, trans_no>>
    /\ UNCHANGED sim_vars

(* The events file is exhausted. *)
EtlEndOfFile ==
    /\ etl_pc = "read"
    /\ line_no = Len(events_file)
    /\ etl_pc' = "load"
    /\ UNCHANGED <<events_file, line_no, event_bound, processed_transactions,
                   dimensions, fact_transactions, trans_no, etl_printed,
                   etl_error>>
    /\ UNCHANGED sim_vars

(* One iteration of the load loop. *)
EtlInsertFact ==
    /\ etl_pc = "load"
    /\ trans_no < Len(processed_transactions)
    /\ LET trans == processed_transactions[trans_no + 1]
       IN  \E outcome \in InsertOutcomes :
              IF outcome = "inserted"
              THEN /\ fact_transactions' = Append(fact_transactions, trans)
                   /\ UNCHANGED etl_printed
              ELSE /\ etl_printed' =
                        Append(etl_printed,
                               EtlMessage(trans.line,
                                   IF outcome = "ConstraintException"
                                   THEN "skipping" ELSE "insert_error"))
                   /\ UNCHANGED fact_transactions
    /\ trans_no' = trans_no + 1
    /\ UNCHANGED <<etl_pc, events_file, line_no, event_bound,
                   processed_transactions, dimensions, etl_error>>
    /\ UNCHANGED sim_vars

(* The connection is closed and the completion message printed. *)
EtlClose ==
    /\ etl_pc = "load"
    /\ trans_no = Len(processed_transactions)
    /\ etl_pc' = "closed"
    /\ UNCHANGED <<events_file, line_no, event_bound, processed_transactions,
                   dimensions, fact_transactions, trans_no, etl_printed,
                   etl_error>>
    /\ UNCHANGED sim_vars

NextEtl ==
    \/ EtlOpen
    \/ EtlLine
    \/ EtlEndOfFile
    \/ EtlInsertFact
    \/ EtlClose

SpecEtl == InitEtl /\ [][NextEtl]_vars

(* ------------------------- claims: vocabulary -------------------------- *)
ValidConfig == num_booths >= 1 /\ vehicles_per_hour > 0

AtLoopGuard == pc \in {"loop", "done"}

RECURSIVE QueuedTotal(_)
QueuedTotal(ids) ==
    IF ids = {} THEN 0
    ELSE LET b == CHOOSE x \in ids : TRUE
         IN  Len(booths[b].vehicle_queue) + QueuedTotal(ids \ {b})

BusyTotal == Cardinality({b \in DOMAIN booths : booths[b].is_busy})

(* The places a vehicle occupies: <<b, 0>> in service at booth b, <<b, k>>  *)
(* k-th in the queue of booth b.                                           *)
Positions(id) ==
    {p \in (DOMAIN booths) \X (0..next_vehicle_id) :
        \/ p[2] = 0 /\ booths[p[1]].current_vehicle = id
        \/ /\ p[2] >= 1
           /\ p[2] <= Len(booths[p[1]].vehicle_queue)
           /\ booths[p[1]].vehicle_queue[p[2]] = id}

FinishedCount(id) ==
    Cardinality({k \in 1..Len(finished) : finished[k] = id})

PendingFinish(b) ==
    {k \in 1..Len(event_queue) :
        /\ event_queue[k].type = "FINISH_PROCESSING"
        /\ event_queue[k].data[1] = b}

LastHandled == handled[Len(handled)]

(* ------------------------------- C1 ------------------------------------ *)
(* C1: at every loop-guard evaluation of a plaza with at least one booth   *)
(* and a positive arrival rate, the vehicles generated equal the vehicles  *)
(* processed plus the queued ones plus the busy booths, and every vehicle  *)
(* generated is in exactly one place: one queue slot, one booth's service, *)
(* or finished once.                                                       *)
C1_Conservation ==
    (AtLoopGuard /\ ValidConfig) =>
        /\ next_vehicle_id =
              vehicles_processed + QueuedTotal(DOMAIN booths) + BusyTotal
        /\ \A id \in 1..next_vehicle_id :
              Cardinality(Positions(id)) + FinishedCount(id) = 1

C1_Witness ==
    /\ pc = "loop"
    /\ ValidConfig
    /\ vehicles_processed >= 1
    /\ QueuedTotal(DOMAIN booths) >= 1
    /\ BusyTotal >= 1

(* ------------------------------- C2 ------------------------------------ *)
BoothConsistent ==
    \A b \in DOMAIN booths :
        /\ (booths[b].current_vehicle # None) <=> booths[b].is_busy
        /\ Cardinality(PendingFinish(b)) <= 1

StartStep ==
    /\ Len(handled') = Len(handled) + 1
    /\ handled'[Len(handled')].type = "START_PROCESSING"

(* C2: after every handled event each booth has a current vehicle exactly  *)
(* when it is busy and at most one FINISH_PROCESSING event pending, and a  *)
(* START_PROCESSING event is only ever handled at a booth that is idle     *)
(* with no vehicle in service.                                             *)
C2_BoothInvariant ==
    [][/\ BoothConsistent'
       /\ StartStep =>
             LET b == handled'[Len(handled')].data[1]
             IN  ~booths[b].is_busy /\ booths[b].current_vehicle = None]_vars

C2_Witness ==
    /\ Len(finished) >= 1
    /\ \E b \in DOMAIN booths :
          /\ booths[b].is_busy
          /\ booths[b].current_vehicle # None
          /\ booths[b].current_vehicle > finished[1]
          /\ booths[b].vehicle_queue # <<>>
          /\ Cardinality(PendingFinish(b)) = 1

(* ------------------------------- C3 ------------------------------------ *)
(* C3: in any run the times of consecutively dequeued events are           *)
(* non-decreasing, and the clock is the time of the last of them.          *)
C3_MonotonicClock ==
    /\ \A i \in 1..(Len(handled) - 1) : handled[i].time <= handled[i + 1].time
    /\ handled # <<>> => simulation_time = LastHandled.time

(* ------------------------------- C4 ------------------------------------ *)
ExactFinish(id) == service_start[id] + vehicles[id].axles * SecondsPerAxle

(* C4 as stated: every finished vehicle left exactly 2 * axles after the   *)
(* start of its service.                                                   *)
C4_ExactDuration ==
    \A k \in 1..Len(finished) :
        vehicles[finished[k]].departure_time - service_start[finished[k]]
            = vehicles[finished[k]].axles * SecondsPerAxle

(* C4 amended: the time of the FINISH_PROCESSING event of every finished   *)
(* vehicle is the float sum of the time of its START_PROCESSING event and  *)
(* 2 * axles: the exact sum rounded to the nearest representable time, so  *)
(* within half a spacing of it, and the exact sum when that is             *)
(* representable.                                                          *)
C4_RoundedDuration ==
    \A k \in 1..Len(finished) :
        LET id == finished[k]
            finish_time == vehicles[id].departure_time
            exact == ExactFinish(id)
            magnitude == IF exact < 0 THEN 0 - exact ELSE exact
            off == IF finish_time < exact THEN exact - finish_time
                   ELSE finish_time - exact
        IN  /\ id \in DOMAIN service_start
            /\ finish_time = Float(exact)
            /\ 2 * off <= Quantum(magnitude, 1)
            /\ (magnitude < 2 ^ MantBits) => finish_time = exact

C4_Witness ==
    /\ \E k \in 1..Len(finished) :
          vehicles[finished[k]].departure_time # ExactFinish(finished[k])
    /\ \E k \in 1..Len(finished) :
          /\ vehicles[finished[k]].departure_time = ExactFinish(finished[k])
          /\ service_start[finished[k]] > vehicles[finished[k]].arrival_time

(* ------------------------------- C5 ------------------------------------ *)
QueueLengths == 0..3

BoothsWith(lens) ==
    [i \in DOMAIN lens |->
        [TollBooth(i) EXCEPT !.vehicle_queue = [k \in 1..lens[i] |-> k]]]

LowestMinimal(bs) ==
    CHOOSE b \in DOMAIN bs :
        /\ \A j \in DOMAIN bs :
              Len(bs[b].vehicle_queue) <= Len(bs[j].vehicle_queue)
        /\ \A j \in DOMAIN bs :
              j < b => Len(bs[j].vehicle_queue) > Len(bs[b].vehicle_queue)

ArrivalStep == next_vehicle_id' = next_vehicle_id + 1 /\ error' = "none"

ConstructStep == pc = "new" /\ pc' = "constructed" /\ num_booths >= 1

(* C5: for every vector of queue lengths of the booths of a constructed    *)
(* plaza, _get_shortest_queue_booth returns the lowest-indexed booth among *)
(* those of minimal queue length, and every handled arrival appends the    *)
(* new vehicle to the queue of exactly that booth and changes no other     *)
(* booth.                                                                  *)
C5_DeterministicRouting ==
    [][/\ ConstructStep =>
             \A lens \in [DOMAIN booths' -> QueueLengths] :
                 GetShortestQueueBooth(BoothsWith(lens))
                     = LowestMinimal(BoothsWith(lens))
       /\ ArrivalStep =>
             booths' =
                 [booths EXCEPT ![LowestMinimal(booths)].vehicle_queue =
                     Append(@, next_vehicle_id')]]_vars

C5_Witness ==
    /\ handled # <<>>
    /\ LastHandled.type = "VEHICLE_ARRIVAL"
    /\ num_booths = 2
    /\ Len(booths[0].vehicle_queue) = 1
    /\ Len(booths[1].vehicle_queue) = 1
    /\ booths[1].vehicle_queue[1] = next_vehicle_id

(* ------------------------------- C6 ------------------------------------ *)
(* C6: every finished vehicle has departure_time >= arrival_time, its      *)
(* departure_time never changes afterwards, and total_wait_time is         *)
(* non-negative and never decreases.                                       *)
C6_NonNegativeWait ==
    [][/\ \A k \in 1..Len(finished') :
             vehicles'[finished'[k]].departure_time
                 >= vehicles'[finished'[k]].arrival_time
       /\ \A k \in 1..Len(finished) :
             vehicles'[finished[k]].departure_time
                 = vehicles[finished[k]].departure_time
       /\ total_wait_time' >= total_wait_time
       /\ total_wait_time' >= 0]_vars

C6_Witness ==
    /\ Len(finished) >= 2
    /\ total_wait_time > 0
    /\ \E k \in 1..Len(finished) :
          vehicles[finished[k]].departure_time
              - vehicles[finished[k]].arrival_time
              > vehicles[finished[k]].axles * SecondsPerAxle

(* ------------------------------- C7 ------------------------------------ *)
(* C7: constructing the engine with vehicles_per_hour = 0 raises a         *)
(* ConfigurationError and no event is ever scheduled.                      *)
C7_ZeroRateGuard ==
    (vehicles_per_hour = 0 /\ pc # "new") =>
        /\ pc = "failed"
        /\ error = "ConfigurationError"
        /\ event_queue = <<>>
        /\ handled = <<>>

(* ------------------------------- C8 ------------------------------------ *)
(* C8: constructing the engine with no booth or with a negative            *)
(* vehicles_per_hour is rejected at construction with a configuration      *)
(* error: no event is scheduled and no vehicle is generated.               *)
C8_ConfigurationGuard ==
    ((num_booths = 0 \/ vehicles_per_hour < 0) /\ pc # "new") =>
        /\ pc = "failed"
        /\ error = "ConfigurationError"
        /\ event_queue = <<>>
        /\ handled = <<>>
        /\ next_vehicle_id = 0

(* ------------------------------- C9 ------------------------------------ *)
(* One booth, the first three arrivals at 0, 1 and 100, two axles each,    *)
(* a bound that lets the third be handled, and no further arrival before   *)
(* the third service ends or before the bound.                             *)
ScenarioForced ==
    /\ num_booths = 1
    /\ vehicles_per_hour > 0
    /\ duration_seconds > 100
    /\ Len(vehicles) >= 3
    /\ vehicles[1].arrival_time = 0
    /\ vehicles[2].arrival_time = 1
    /\ vehicles[3].arrival_time = 100
    /\ \A id \in 1..3 : vehicles[id].axles = 2
    /\ \A id \in 4..Len(vehicles) :
          /\ vehicles[id].arrival_time >= 104
          /\ vehicles[id].arrival_time >= duration_seconds

ScenarioServices ==
    /\ finished = <<1, 2, 3>>
    /\ service_start[1] = 0 /\ vehicles[1].departure_time = 4
    /\ service_start[2] = 4 /\ vehicles[2].departure_time = 8
    /\ service_start[3] = 100 /\ vehicles[3].departure_time = 104
    /\ vehicles_processed = 3
    /\ total_wait_time = 15
    /\ report.result = "average"
    /\ report.vehicles_processed = 3
    /\ report.avg_wait_time = <<15, 3>>

(* C9 as stated: the scenario ends with three vehicles processed, a total  *)
(* wait of 15 and nothing left in the queues.                              *)
C9_ScenarioAsStated ==
    (pc = "done" /\ ScenarioForced) =>
        ScenarioServices /\ report.remaining = 0

(* C9 amended: the scenario ends with the three vehicles served 0..4,      *)
(* 4..8 and 100..104, vehicles_processed = 3 and total_wait_time = 15      *)
(* (average 15 / 3); the remaining queued count is 0 when the duration     *)
(* bound is at most 104, and 1 when it is larger, because the fourth       *)
(* arrival is then dequeued and routed before the loop guard stops the     *)
(* run.                                                                    *)
C9_Scenario ==
    (pc = "done" /\ ScenarioForced) =>
        /\ ScenarioServices
        /\ report.remaining = (IF duration_seconds <= 104 THEN 0 ELSE 1)
        /\ next_vehicle_id = 3 + report.remaining

C9_Witness ==
    /\ pc = "done"
    /\ ScenarioForced
    /\ duration_seconds <= 104
    /\ report.remaining = 0
    /\ report.avg_wait_time = <<15, 3>>

(* ------------------------------- C10 ----------------------------------- *)
FirstArrivalTime ==
    IF handled # <<>> THEN handled[1].time ELSE event_queue[1].time

HandledCount(event_type) ==
    Cardinality({k \in 1..Len(handled) : handled[k].type = event_type})

RECURSIVE WaitSum(_)
(* The waits of the first n finished vehicles, added in finish order as    *)
(* line 147 adds them.                                                     *)
WaitSum(n) ==
    IF n = 0 THEN 0
    ELSE LET vehicle == vehicles[finished[n]]
         IN  FloatAdd(WaitSum(n - 1),
                      FloatSub(vehicle.departure_time, vehicle.arrival_time))

NotFinished == {id \in 1..next_vehicle_id : FinishedCount(id) = 0}

(* C11: when run_simulation has returned, vehicles_processed is the number *)
(* of FINISH_PROCESSING events handled, total_wait_time is the sum of      *)
(* departure_time - arrival_time over exactly the vehicles of those        *)
(* events, a vehicle still queued or in service has no departure and no    *)
(* share in either figure, and the remaining count printed is the sum of   *)
(* the booth queue lengths, the vehicles in service left out.              *)
C11_CutoffAccounting ==
    (pc = "done") =>
        /\ vehicles_processed = HandledCount("FINISH_PROCESSING")
        /\ vehicles_processed = Len(finished)
        /\ total_wait_time = WaitSum(Len(finished))
        /\ \A id \in NotFinished :
              /\ vehicles[id].departure_time = 0
              /\ Cardinality(Positions(id)) = 1
        /\ \A id \in 1..next_vehicle_id : FinishedCount(id) <= 1
        /\ report.vehicles_processed = vehicles_processed
        /\ report.avg_wait_time =
              IF vehicles_processed > 0
              THEN <<total_wait_time, vehicles_processed>> ELSE <<>>
        /\ report.remaining = QueuedTotal(DOMAIN booths)
        /\ report.remaining = Cardinality(NotFinished) - BusyTotal

C11_Witness ==
    /\ pc = "done"
    /\ vehicles_processed >= 1
    /\ total_wait_time > 0
    /\ BusyTotal >= 1
    /\ report.remaining >= 1

(* ------------------------------- C12 ----------------------------------- *)
PendingPairs ==
    {p \in (DOMAIN event_queue) \X (DOMAIN event_queue) : p[1] < p[2]}

(* The tuple comparison of a and b is settled by a component both tuples   *)
(* have: the time, the kind, or a booth id present in both.                *)
SettledByComponent(a, b) ==
    \/ a.time # b.time
    \/ a.type # b.type
    \/ Len(a.data) = 1 /\ Len(b.data) = 1 /\ a.data[1] # b.data[1]

(* The kind of event decides whether the tuple carries a booth id. *)
SameShape(a) ==
    Len(a.data) = (IF a.type = "VEHICLE_ARRIVAL" THEN 0 ELSE 1)

(* C12: the pending events are totally ordered by the tuple comparison: no *)
(* two of them compare equal, every comparison is settled by a component   *)
(* of the same type in both tuples, and the event dequeued next is the one *)
(* strictly smaller than every other. With the draws given, each step of   *)
(* a run has therefore one outcome, so that runs with the same             *)
(* configuration, duration and draws handle the same events.               *)
C12_Reproducibility ==
    /\ \A k \in DOMAIN event_queue : SameShape(event_queue[k])
    /\ \A p \in PendingPairs :
          /\ SettledByComponent(event_queue[p[1]], event_queue[p[2]])
          /\ TupleLess(event_queue[p[1]], event_queue[p[2]])
          /\ ~TupleLess(event_queue[p[2]], event_queue[p[1]])

C12_Witness ==
    /\ pc = "loop"
    /\ \E p \in PendingPairs :
          /\ event_queue[p[1]].time = event_queue[p[2]].time
          /\ event_queue[p[1]].type = event_queue[p[2]].type
    /\ Len(event_queue) >= 3

(* ------------------------------- C13 ----------------------------------- *)
(* C13: no event is ever pending at a time earlier than the clock: every   *)
(* pending event has time >= simulation_time, in every run.                *)
C13_NoEventInPast ==
    \A k \in DOMAIN event_queue : event_queue[k].time >= simulation_time

(* ------------------------------- C14 ----------------------------------- *)
RoutedTo(b) == {id \in DOMAIN routed_to : routed_to[id] = b}

AwaitingStart(b) == {id \in RoutedTo(b) : id \notin DOMAIN service_start}

AwaitingFinish(b) == {id \in RoutedTo(b) : FinishedCount(id) = 0}

Oldest(ids) == CHOOSE id \in ids : \A other \in ids : id <= other

FinishStep == Len(finished') = Len(finished) + 1

HandledBooth == handled'[Len(handled')].data[1]

(* C14: vehicle ids are distinct and increase in order of arrival, a new   *)
(* vehicle joins the tail of its booth's queue, every START_PROCESSING     *)
(* that takes a vehicle takes the earliest-routed vehicle of that booth    *)
(* not yet taken, and every departure from a booth is that of its          *)
(* earliest-routed vehicle not yet departed; so each booth serves and      *)
(* releases its vehicles in increasing id order.                           *)
C14_PerBoothFifo ==
    /\ [](/\ \A k \in 1..Len(vehicles) : vehicles[k].id = k
          /\ \A b \in DOMAIN booths :
                \A k \in 1..(Len(booths[b].vehicle_queue) - 1) :
                    booths[b].vehicle_queue[k] < booths[b].vehicle_queue[k + 1])
    /\ [][
        /\ ArrivalStep =>
              LET b == routed_to'[next_vehicle_id']
                  queue == booths'[b].vehicle_queue
              IN  /\ next_vehicle_id' > next_vehicle_id
                  /\ queue[Len(queue)] = next_vehicle_id'
                  /\ Len(queue) = Len(booths[b].vehicle_queue) + 1
        /\ (StartStep /\ booths[HandledBooth].vehicle_queue # <<>>) =>
              /\ booths'[HandledBooth].current_vehicle =
                    Oldest(AwaitingStart(HandledBooth))
              /\ DOMAIN service_start' =
                    DOMAIN service_start
                        \cup {booths'[HandledBooth].current_vehicle}
        /\ FinishStep =>
              finished'[Len(finished')] = Oldest(AwaitingFinish(HandledBooth))
      ]_vars

C14_Witness ==
    \E b \in DOMAIN booths :
        \E x \in RoutedTo(b), y \in RoutedTo(b), z \in RoutedTo(b) :
            /\ x < y
            /\ y < z
            /\ FinishedCount(x) = 1
            /\ booths[b].current_vehicle = y
            /\ service_start[y] > vehicles[y].arrival_time
            /\ z \in AwaitingStart(b)

(* ------------------------------- C15 ----------------------------------- *)
EarlierAtBooth(id) == {other \in RoutedTo(routed_to[id]) : other < id}

Newest(ids) == CHOOSE id \in ids : \A other \in ids : id >= other

(* The time at which a booth with no idle gap takes vehicle id: its        *)
(* arrival, or the departure of the vehicle before it at the booth when    *)
(* that one left later.                                                    *)
NoGapStart(id) ==
    IF EarlierAtBooth(id) = {} THEN vehicles[id].arrival_time
    ELSE LET before == vehicles[Newest(EarlierAtBooth(id))]
         IN  IF before.departure_time > vehicles[id].arrival_time
             THEN before.departure_time
             ELSE vehicles[id].arrival_time

DequeueStep == Len(handled') = Len(handled) + 1

(* C15: a vehicle routed to an idle booth starts service at its arrival    *)
(* time, a vehicle that waited starts at the departure time of the vehicle *)
(* before it at its booth, and whenever the loop dequeues an event later   *)
(* than the clock every booth with a non-empty queue is busy.              *)
C15_NoIdleGap ==
    [][ /\ \A id \in DOMAIN service_start : service_start[id] = NoGapStart(id)
        /\ (ArrivalStep /\ ~booths[routed_to'[next_vehicle_id']].is_busy) =>
              \E k \in DOMAIN event_queue' :
                 event_queue'[k] =
                    Event(vehicles'[next_vehicle_id'].arrival_time,
                          "START_PROCESSING",
                          <<routed_to'[next_vehicle_id']>>)
        /\ (DequeueStep /\ handled'[Len(handled')].time > simulation_time) =>
              \A b \in DOMAIN booths :
                 booths[b].vehicle_queue # <<>> => booths[b].is_busy
      ]_vars

(* ------------------------------- C16 ----------------------------------- *)
FinishHandledStep ==
    /\ DequeueStep
    /\ handled'[Len(handled')].type = "FINISH_PROCESSING"

(* C16: in a plaza with at least one booth and a positive arrival rate,    *)
(* every START_PROCESSING event dequeued finds its booth idle, with no     *)
(* vehicle in service and a non-empty queue, and every FINISH_PROCESSING   *)
(* event dequeued finds its booth busy with a vehicle in service.          *)
C16_HandlerPreconditions ==
    [][ ValidConfig =>
        /\ StartStep =>
              /\ ~booths[HandledBooth].is_busy
              /\ booths[HandledBooth].current_vehicle = None
              /\ booths[HandledBooth].vehicle_queue # <<>>
        /\ FinishHandledStep =>
              /\ booths[HandledBooth].is_busy
              /\ booths[HandledBooth].current_vehicle # None
              /\ error' = "none"
      ]_vars

C16_Witness ==
    /\ ValidConfig
    /\ HandledCount("START_PROCESSING") >= 2
    /\ HandledCount("FINISH_PROCESSING") >= 2
    /\ QueuedTotal(DOMAIN booths) >= 1

(* ------------------------------- C17 ----------------------------------- *)
PendingArrivals ==
    {k \in DOMAIN event_queue : event_queue[k].type = "VEHICLE_ARRIVAL"}

LoopExitStep == pc = "loop" /\ pc' # "loop" /\ ~DequeueStep

(* C17: at every evaluation of the loop guard exactly one VEHICLE_ARRIVAL  *)
(* event is pending, so the event queue is not empty; the loop is left     *)
(* only because the clock has reached the duration bound, never because    *)
(* the queue is drained, and the events pending at that moment stay in the *)
(* queue.                                                                  *)
C17_SelfPerpetuatingArrivals ==
    /\ [](AtLoopGuard =>
              /\ Cardinality(PendingArrivals) = 1
              /\ event_queue # <<>>)
    /\ [][LoopExitStep =>
              /\ simulation_time >= duration_seconds
              /\ event_queue' = event_queue
              /\ event_queue' # <<>>
              /\ pc' = "done"]_vars

C17_Witness ==
    /\ pc = "done"
    /\ next_vehicle_id >= 2
    /\ Cardinality(PendingArrivals) = 1
    /\ Len(event_queue) >= 2

(* ------------------------------- C18 ----------------------------------- *)
(* C18: the loop handles no event once the clock is at or past the         *)
(* duration bound and leaves at its next guard evaluation; every handled   *)
(* event but the last has time < duration_seconds, so at most one handled  *)
(* event, the last, has time >= duration_seconds, and when run_simulation  *)
(* has returned the last handled event is that one.                        *)
C18_TimeBoundTruncation ==
    /\ [](/\ \A k \in 1..(Len(handled) - 1) :
                handled[k].time < duration_seconds
          /\ (pc = "done" /\ handled # <<>>) =>
                /\ LastHandled.time >= duration_seconds
                /\ LastHandled.time = simulation_time)
    /\ [][ /\ DequeueStep => simulation_time < duration_seconds
           /\ (pc = "loop" /\ simulation_time >= duration_seconds) =>
                 LoopExitStep
         ]_vars

C18_Witness ==
    /\ pc = "done"
    /\ Len(handled) >= 4
    /\ LastHandled.time > duration_seconds
    /\ LastHandled.type = "FINISH_PROCESSING"

(* ------------------------------- C19 ----------------------------------- *)
(* C19: with a positive duration bound, at least one booth, a positive     *)
(* rate and inter-arrival gaps that are positive and move the clock        *)
(* forward, run_simulation eventually leaves its loop and prints the       *)
(* statistics.                                                             *)
C19_Termination ==
    <>(pc = "done" /\ report.result \in {"average", "none"})

C19_Witness ==
    /\ pc = "done"
    /\ duration_seconds > 0
    /\ ValidConfig
    /\ next_vehicle_id >= 2
    /\ report.result = "average"

(* ------------------------------- C20 ----------------------------------- *)
RowsOf(n) ==
    {k \in DOMAIN fact_transactions : fact_transactions[k].line = n}

ReportsOf(n) == {k \in DOMAIN etl_printed : etl_printed[k].line = n}

Collected(n) ==
    \E k \in DOMAIN processed_transactions :
        processed_transactions[k].line = n

(* C20: run_etl is never left by an exception; each line consumed that is  *)
(* not JSON, or is a transaction event whose transformation or dimension   *)
(* insert raises, is reported once and yields no fact row; and when the    *)
(* job has completed every collected transaction whose fact insert raised  *)
(* is reported once and yields no row, while every other transaction event *)
(* of the file has exactly one fact row.                                   *)
C20_PerRecordIsolation ==
    /\ etl_pc # "aborted"
    /\ etl_error = "none"
    /\ \A n \in 1..line_no :
          \/ events_file[n].kind = "other_event"
          \/ Collected(n)
          \/ Cardinality(ReportsOf(n)) = 1 /\ RowsOf(n) = {}
    /\ (etl_pc = "closed") =>
          /\ line_no = Len(events_file)
          /\ \A n \in 1..Len(events_file) :
                Cardinality(ReportsOf(n)) + Cardinality(RowsOf(n)) =
                   (IF events_file[n].kind = "other_event" THEN 0 ELSE 1)
          /\ \A n \in 1..Len(events_file) :
                RowsOf(n) # {} =>
                   /\ events_file[n].kind = "transaction_event"
                   /\ events_file[n].timestamp = "iso"
====
